---- MODULE Spec2Model ----
(***************************************************************************)
(* token-refresher (observatorium/token-refresher), main.go.               *)
(*                                                                         *)
(* The model follows main(): the run.Group with its actors (signal         *)
(* handler, internal server, file-mode refresh loop, proxy server) and the *)
(* file-mode refresh loop with the files it writes.                        *)
(*                                                                         *)
(* Time is counted in seconds.  A time.Duration is a signed integer of     *)
(* DurBits bits (64 in Go, scaled down here) whose arithmetic wraps, and   *)
(* Time.Sub saturates at the smallest and largest Duration, as in Go.      *)
(***************************************************************************)
EXTENDS Integers, Sequences, FiniteSets, TLC

\* ------------------------------------------------------------------ bounds
MaxTime == 13
DurBits == 8
MaxFails == 2
MaxFetchTime == 1
MaxSignals == 2

\* --------------------------------------------------------- program constants
retryInterval == 5
expiryDelta == 10

\* ------------------------------------------------------------ time.Duration
minDuration == -(2 ^ (DurBits - 1))

maxDuration == (2 ^ (DurBits - 1)) - 1

\* Duration arithmetic is int64 arithmetic: it wraps around.
WrapDuration(x) == ((x - minDuration) % (2 ^ DurBits)) + minDuration

\* The zero time.Time (year 1): further in the past than any Duration spans.
ZeroTime == 2 * minDuration

\* Time.Sub: t - u, saturated to [minDuration, maxDuration].
TimeSub(a, b) ==
    LET x == a - b
    IN  IF x < minDuration THEN minDuration
        ELSE IF x > maxDuration THEN maxDuration
        ELSE x

\* ---------------------------------------------------------------- oauth2.Token
AccessTokens == {<<"a", "1">>, <<"b", "2">>}

\* expires_in of the token response, in seconds; a response without
\* expires_in gives a token whose Expiry is the zero time.
Lifetimes == {5, 12, 20}

\* The nil *oauth2.Token that ccc.Token returns with an error.
NoToken == [AccessToken |-> <<>>, Expiry |-> ZeroTime]

\* Mutant: the validity check forgets the expiry.
Valid_NoExpiry(tok, n) == tok.AccessToken # <<>>

\* oauth2.Token.Valid at time n: a non-empty access token that is not expired;
\* a token is expired when Expiry - expiryDelta is before n, and a token with
\* the zero Expiry never expires.
Valid(tok, n) ==
    /\ tok.AccessToken # <<>>
    /\ \/ tok.Expiry = ZeroTime
       \/ ~(tok.Expiry - expiryDelta < n)

\* tok has no expiry, or at least expiryDelta of lifetime left at time n.
Fresh(tok, n) == tok.Expiry = ZeroTime \/ tok.Expiry >= n + expiryDelta

\* tok has no expiry, or its expiry has not passed at time n.
NotExpired(tok, n) == tok.Expiry = ZeroTime \/ n <= tok.Expiry

\* What ccc.Token(ctx) can return at time n: an error, or a token with a
\* non-empty access token (the library turns an empty one into an error).
FetchResults(n) ==
    {[err |-> TRUE, t |-> NoToken]}
    \cup {[err |-> FALSE, t |-> [AccessToken |-> a, Expiry |-> e]] :
            a \in AccessTokens, e \in {ZeroTime} \cup {n + l : l \in Lifetimes}}

\* ---------------------------------------------------------------- the files
File == <<"token">>

\* Mutant: an empty --temp-file becomes the final path itself.
TempFileDefault_FinalPath(file, tempFlag) ==
    IF tempFlag = <<>> THEN file ELSE tempFlag

\* parseFlags: an empty --temp-file becomes <file>.tmp.
TempFileDefault(file, tempFlag) ==
    IF tempFlag = <<>> THEN file \o <<".tmp">> ELSE tempFlag

Paths == {File, TempFileDefault(File, <<>>)}

Absent == [exists |-> FALSE, data |-> <<>>]

Content(bytes) == [exists |-> TRUE, data |-> bytes]

IsPrefix(a, b) == Len(a) <= Len(b) /\ a = SubSeq(b, 1, Len(a))

\* The strict prefixes of a byte string: what a failed write can leave.
StrictPrefixes(bytes) == {SubSeq(bytes, 1, k) : k \in 0..(Len(bytes) - 1)}

Margins == {0, 15}

\* --------------------------------------------------------------------- state
VARIABLES
    cfg,         \* the parsed flags: file, tempFile, margin, upstream
    now,         \* wall clock, seconds
    pc,          \* position of the file-mode refresh loop
    t,           \* the token of the current iteration
    d,           \* the wait of the current iteration
    started,     \* when the pending token request or timer was started
    cancelled,   \* the file-mode context is cancelled
    fs,          \* the content of each path
    outcome,     \* how the last finished iteration ended
    fails,       \* consecutive failed iterations (saturating at MaxFails)
    preFinal,    \* content of the final path when the publish attempt began
    pub,         \* the last token whose publish succeeded, and whether it
                 \* had at least expiryDelta left when it was published
    returned,    \* the actors of the run.Group that have returned
    first,       \* the result of the first actor to return
    grp,         \* position of run.Group.Run
    proc,        \* the process: running, or how it ended
    sigPc,       \* position of the signal actor
    sigBuf,      \* signals waiting in the channel sig (capacity 1)
    sigClosed,   \* close(sig) was called
    signals,     \* OS signals delivered so far
    isPc,        \* position of the internal server actor
    isShut,      \* Shutdown of the internal server was called
    isBusy,      \* the internal server has an active connection
    psPc,        \* position of the proxy server actor
    psShut,      \* Shutdown of the proxy server was called
    psBusy,      \* the proxy server has a request in flight
    pcancelled,  \* the proxy-mode context is cancelled
    flags,       \* the command line, as parseFlags reads it
    boot,        \* position of main before g.Run
    ccc,         \* ccc.EndpointParams of the clientcredentials.Config
    conf,        \* ccc.ClientID, ccc.ClientSecret and ccc.TokenURL
    ja,          \* joinURLPath: the URL a
    jb,          \* joinURLPath: the URL b
    jres,        \* joinURLPath: the result
    sres,        \* singleJoiningSlash: the result
    rq,          \* the requests that the proxy server is handling
    ptok,        \* the token cached by the proxy's token source
    mu,          \* the request holding the token source's mutex, or 0
    healed,      \* the token endpoint and the file system have stopped failing
    treq         \* the token request that was sent last

schedVars == <<pc, t, d, started, fs, outcome, fails, preFinal, pub>>

sigVars == <<sigPc, sigBuf, sigClosed, signals>>

isVars == <<isPc, isShut, isBusy>>

psVars == <<psPc, psShut, psBusy, pcancelled>>

groupVars == <<returned, first, grp, proc, sigVars, isVars, psVars>>

startVars == <<flags, boot, ccc, conf>>

pathVars == <<ja, jb, jres, sres>>

proxyVars == <<rq, ptok, mu>>

envVars == <<healed, treq>>

extVars == <<startVars, pathVars, envVars, proxyVars>>

vars == <<cfg, extVars, now, cancelled, schedVars, groupVars>>

NoPub == [done |-> FALSE, t |-> NoToken, fresh |-> FALSE]

\* The fields of the clientcredentials.Config before main has set them.
NoConf == [ClientID |-> "", ClientSecret |-> "", TokenURL |-> ""]

NoReq == [sent |-> FALSE, conf |-> NoConf, params |-> {}]

\* Config.Token and the token source of Config.TokenSource build the token
\* request from the fields of ccc as they are when the request is made.
SentRequest == [sent |-> TRUE, conf |-> conf, params |-> ccc]

\* An actor function of the run.Group returns res ("nil" or "err"): run.Group
\* keeps the result of the first one.
ActorReturn(a, res) ==
    /\ returned' = returned \cup {a}
    /\ first' = IF first = "none" THEN res ELSE first

\* ------------------------------------------------- the file-mode refresh loop
\* Mutant: the margin is added instead of subtracted.
NextWait_AddMargin(tok, n, margin) == WrapDuration(TimeSub(tok.Expiry, n) + margin)

\* Mutant: the margin is left out, the refresh starts at the expiry.
NextWait_NoMargin(tok, n, margin) == WrapDuration(TimeSub(tok.Expiry, n))

\* d = t.Expiry.Sub(time.Now()) - cfg.margin
NextWait(tok, n, margin) == WrapDuration(TimeSub(tok.Expiry, n) - margin)

\* Mutant: a failed iteration returns from the actor.
Fail_Return(res) ==
    /\ pc' = "stopped"
    /\ started' = now
    /\ outcome' = res
    /\ fails' = IF fails < MaxFails THEN fails + 1 ELSE fails
    /\ UNCHANGED d

\* Mutant: after a failed iteration the loop waits for ever.
Fail_NoRetry(res) ==
    /\ pc' = "sleep"
    /\ started' = now
    /\ outcome' = res
    /\ fails' = IF fails < MaxFails THEN fails + 1 ELSE fails
    /\ d' = maxDuration

\* The iteration ends without a publish: d is still what the top of the loop
\* set, and the select starts its timer.
Fail(res) ==
    /\ pc' = "sleep"
    /\ started' = now
    /\ outcome' = res
    /\ fails' = IF fails < MaxFails THEN fails + 1 ELSE fails
    /\ UNCHANGED d

\* Mutant: the refresh loop takes its token from the proxy's token source.
FetchReturn_SharedSource ==
    /\ proc = "running"
    /\ pc = "fetch"
    /\ mu = 0
    /\ \E r \in FetchResults(now) :
        /\ cancelled => r.err
        /\ t' = r.t
        /\ ptok' = IF r.err THEN ptok ELSE r.t
        /\ IF r.err
           THEN Fail("err") /\ UNCHANGED <<fs, preFinal, pub>>
           ELSE IF ~Valid(r.t, now)
           THEN Fail("invalid") /\ UNCHANGED <<fs, preFinal, pub>>
           ELSE /\ pc' = "write"
                /\ preFinal' = fs[cfg.file]
                /\ UNCHANGED <<d, started, outcome, fails, fs, pub>>
    /\ treq' = SentRequest
    /\ UNCHANGED <<cfg, startVars, pathVars, healed, rq, mu, now, cancelled, groupVars>>

\* t, err := ccc.Token(ctx) returns, and the switch looks at err and t.Valid().
\* A cancelled context makes the request fail.
FetchReturn ==
    /\ proc = "running"
    /\ pc = "fetch"
    /\ \E r \in FetchResults(now) :
        /\ cancelled => r.err
        /\ t' = r.t
        /\ IF r.err
           THEN Fail("err") /\ UNCHANGED <<fs, preFinal, pub>>
           ELSE IF ~Valid(r.t, now)
           THEN Fail("invalid") /\ UNCHANGED <<fs, preFinal, pub>>
           ELSE /\ pc' = "write"
                /\ preFinal' = fs[cfg.file]
                /\ UNCHANGED <<d, started, outcome, fails, fs, pub>>
    /\ treq' = SentRequest
    /\ UNCHANGED <<cfg, startVars, pathVars, healed, proxyVars, now, cancelled, groupVars>>

\* Mutant: the token is written straight into the final path.
WriteOpen_Direct ==
    /\ proc = "running"
    /\ pc = "write"
    /\ \/ /\ fs' = [fs EXCEPT ![cfg.file] = Content(<<>>)]
          /\ pc' = "wdata"
          /\ UNCHANGED <<d, started, outcome, fails>>
       \/ /\ Fail("writeErr")
          /\ UNCHANGED fs
    /\ UNCHANGED <<cfg, extVars, now, cancelled, t, preFinal, pub, groupVars>>

\* ioutil.WriteFile(cfg.tempFile, ...), first half: open with O_CREATE|O_TRUNC.
WriteOpen ==
    /\ proc = "running"
    /\ pc = "write"
    /\ \/ /\ fs' = [fs EXCEPT ![cfg.tempFile] = Content(<<>>)]
          /\ pc' = "wdata"
          /\ UNCHANGED <<d, started, outcome, fails>>
       \/ /\ Fail("writeErr")
          /\ UNCHANGED fs
    /\ UNCHANGED <<cfg, extVars, now, cancelled, t, preFinal, pub, groupVars>>

\* Mutant: a newline is written after the access token.
WriteData_Newline ==
    /\ proc = "running"
    /\ pc = "wdata"
    /\ \/ /\ fs' = [fs EXCEPT ![cfg.tempFile] = Content(t.AccessToken \o <<"\n">>)]
          /\ pc' = "rename"
          /\ UNCHANGED <<d, started, outcome, fails>>
       \/ /\ \E part \in StrictPrefixes(t.AccessToken) :
                fs' = [fs EXCEPT ![cfg.tempFile] = Content(part)]
          /\ Fail("writeErr")
    /\ UNCHANGED <<cfg, extVars, now, cancelled, t, preFinal, pub, groupVars>>

\* ioutil.WriteFile, second half: write the bytes and close; a failed write
\* leaves a strict prefix of them.
WriteData ==
    /\ proc = "running"
    /\ pc = "wdata"
    /\ \/ /\ fs' = [fs EXCEPT ![cfg.tempFile] = Content(t.AccessToken)]
          /\ pc' = "rename"
          /\ UNCHANGED <<d, started, outcome, fails>>
       \/ /\ \E part \in StrictPrefixes(t.AccessToken) :
                fs' = [fs EXCEPT ![cfg.tempFile] = Content(part)]
          /\ Fail("writeErr")
    /\ UNCHANGED <<cfg, extVars, now, cancelled, t, preFinal, pub, groupVars>>

\* Mutant: a failed rename does not break out of the switch, so d is computed
\* from the token's expiry all the same.
Rename_NoBreak ==
    /\ proc = "running"
    /\ pc = "rename"
    /\ \/ /\ fs' = IF cfg.tempFile = cfg.file
                   THEN fs
                   ELSE [fs EXCEPT ![cfg.file] = fs[cfg.tempFile],
                                   ![cfg.tempFile] = Absent]
          /\ d' = NextWait(t, now, cfg.margin)
          /\ pc' = "sleep"
          /\ started' = now
          /\ outcome' = "ok"
          /\ fails' = 0
          /\ pub' = [done |-> TRUE, t |-> t, fresh |-> Fresh(t, now)]
       \/ /\ d' = NextWait(t, now, cfg.margin)
          /\ pc' = "sleep"
          /\ started' = now
          /\ outcome' = "renameErr"
          /\ fails' = IF fails < MaxFails THEN fails + 1 ELSE fails
          /\ UNCHANGED <<fs, pub>>
    /\ UNCHANGED <<cfg, extVars, now, cancelled, t, preFinal, groupVars>>

\* Mutant: the final path is removed before the rename, so a failed rename
\* leaves no file.
Rename_RemoveFirst ==
    /\ proc = "running"
    /\ pc = "rename"
    /\ \/ /\ fs' = IF cfg.tempFile = cfg.file
                   THEN fs
                   ELSE [fs EXCEPT ![cfg.file] = fs[cfg.tempFile],
                                   ![cfg.tempFile] = Absent]
          /\ d' = NextWait(t, now, cfg.margin)
          /\ pc' = "sleep"
          /\ started' = now
          /\ outcome' = "ok"
          /\ fails' = 0
          /\ pub' = [done |-> TRUE, t |-> t, fresh |-> Fresh(t, now)]
       \/ /\ Fail("renameErr")
          /\ fs' = [fs EXCEPT ![cfg.file] = Absent]
          /\ UNCHANGED pub
    /\ UNCHANGED <<cfg, extVars, now, cancelled, t, preFinal, groupVars>>

\* Mutant: the rename fails when the final path exists, as link(2) would.
Rename_NoReplace ==
    /\ proc = "running"
    /\ pc = "rename"
    /\ \/ /\ cfg.tempFile = cfg.file \/ ~fs[cfg.file].exists
          /\ fs' = IF cfg.tempFile = cfg.file
                   THEN fs
                   ELSE [fs EXCEPT ![cfg.file] = fs[cfg.tempFile],
                                   ![cfg.tempFile] = Absent]
          /\ d' = NextWait(t, now, cfg.margin)
          /\ pc' = "sleep"
          /\ started' = now
          /\ outcome' = "ok"
          /\ fails' = 0
          /\ pub' = [done |-> TRUE, t |-> t, fresh |-> Fresh(t, now)]
       \/ /\ Fail("renameErr")
          /\ UNCHANGED <<fs, pub>>
    /\ UNCHANGED <<cfg, extVars, now, cancelled, t, preFinal, groupVars>>

\* os.Rename(cfg.tempFile, cfg.file), and on success the wait until the refresh.
Rename ==
    /\ proc = "running"
    /\ pc = "rename"
    /\ \/ /\ fs' = IF cfg.tempFile = cfg.file
                   THEN fs
                   ELSE [fs EXCEPT ![cfg.file] = fs[cfg.tempFile],
                                   ![cfg.tempFile] = Absent]
          /\ d' = NextWait(t, now, cfg.margin)
          /\ pc' = "sleep"
          /\ started' = now
          /\ outcome' = "ok"
          /\ fails' = 0
          /\ pub' = [done |-> TRUE, t |-> t, fresh |-> Fresh(t, now)]
       \/ /\ Fail("renameErr")
          /\ UNCHANGED <<fs, pub>>
    /\ UNCHANGED <<cfg, extVars, now, cancelled, t, preFinal, groupVars>>

\* The timer started with d has fired.
TimerDue == now - started >= d

\* Mutant: d is declared outside the loop and keeps its last value.
TimerFire_KeepD ==
    /\ proc = "running"
    /\ pc = "sleep"
    /\ TimerDue
    /\ pc' = "fetch"
    /\ t' = NoToken
    /\ preFinal' = Absent
    /\ started' = now
    /\ UNCHANGED <<cfg, extVars, now, cancelled, d, fs, outcome, fails, pub, groupVars>>

\* case <-time.NewTimer(d).C: the next iteration starts with d := retryInterval
\* and calls ccc.Token(ctx).
TimerFire ==
    /\ proc = "running"
    /\ pc = "sleep"
    /\ TimerDue
    /\ pc' = "fetch"
    /\ d' = retryInterval
    /\ t' = NoToken
    /\ preFinal' = Absent
    /\ started' = now
    /\ UNCHANGED <<cfg, extVars, now, cancelled, fs, outcome, fails, pub, groupVars>>

\* Mutant: the context is looked at only once the timer has fired.
SchedStop_AfterTimer ==
    /\ proc = "running"
    /\ pc = "sleep"
    /\ TimerDue
    /\ cancelled
    /\ pc' = "stopped"
    /\ ActorReturn("file", "nil")
    /\ UNCHANGED <<cfg, extVars, now, cancelled, t, d, started, fs, outcome, fails, preFinal, pub>>
    /\ UNCHANGED <<grp, proc, sigVars, isVars, psVars>>

\* case <-ctx.Done(): return nil
SchedStop ==
    /\ proc = "running"
    /\ pc = "sleep"
    /\ cancelled
    /\ pc' = "stopped"
    /\ ActorReturn("file", "nil")
    /\ UNCHANGED <<cfg, extVars, now, cancelled, t, d, started, fs, outcome, fails, preFinal, pub>>
    /\ UNCHANGED <<grp, proc, sigVars, isVars, psVars>>

\* The interrupt function of the file-mode actor: cancel().
Cancel ==
    /\ proc = "running"
    /\ ~cancelled
    /\ cancelled' = TRUE
    /\ UNCHANGED <<cfg, extVars, now, schedVars, groupVars>>

\* One second passes.  The token request takes up to MaxFetchTime; the file
\* operations are local and take no time at this scale; the select wakes up as
\* soon as its timer is due or the context is cancelled.
Tick ==
    /\ proc = "running"
    /\ now < MaxTime
    /\ \/ pc = "fetch" /\ now - started < MaxFetchTime
       \/ pc = "sleep" /\ ~cancelled /\ ~TimerDue
    /\ now' = now + 1
    /\ UNCHANGED <<cfg, extVars, cancelled, schedVars, groupVars>>

\* ------------------------------------------------------------- the run.Group
\* The actors added to the group, in the order of g.Add.
Actors ==
    {"sig", "is"}
    \cup (IF cfg.file = <<>> THEN {} ELSE {"file"})
    \cup (IF cfg.upstream THEN {"ps"} ELSE {})

\* Run calls the interrupt functions one after the other, in the order of
\* g.Add; these are the positions after the signal actor's and after the
\* internal server's interrupt.
AfterInternal ==
    IF cfg.file # <<>> THEN "i_file"
    ELSE IF cfg.upstream THEN "i_ps"
    ELSE "wait"

AfterFile == IF cfg.upstream THEN "i_ps" ELSE "wait"

\* signal.Notify(sig, os.Interrupt, syscall.SIGTERM)
SigNotify ==
    /\ proc = "running"
    /\ sigPc = "start"
    /\ sigPc' = "recv"
    /\ UNCHANGED <<cfg, extVars, now, cancelled, schedVars, returned, first, grp, proc>>
    /\ UNCHANGED <<sigBuf, sigClosed, signals, isVars, psVars>>

\* <-sig returns with a signal, or because sig is closed; return nil.
SigReceive ==
    /\ proc = "running"
    /\ sigPc = "recv"
    /\ sigBuf > 0 \/ sigClosed
    /\ sigPc' = "done"
    /\ sigBuf' = 0
    /\ ActorReturn("sig", "nil")
    /\ UNCHANGED <<cfg, extVars, now, cancelled, schedVars, grp, proc>>
    /\ UNCHANGED <<sigClosed, signals, isVars, psVars>>

\* The OS delivers SIGINT or SIGTERM.  Before signal.Notify the default action
\* ends the process; after it, os/signal sends on sig without blocking, and a
\* send on a closed channel panics.
OSSignal ==
    /\ proc = "running"
    /\ signals < MaxSignals
    /\ signals' = signals + 1
    /\ IF sigPc = "start"
       THEN proc' = "killed" /\ UNCHANGED sigBuf
       ELSE IF sigClosed
       THEN proc' = "panic" /\ UNCHANGED sigBuf
       ELSE sigBuf' = 1 /\ UNCHANGED proc
    /\ UNCHANGED <<cfg, extVars, now, cancelled, schedVars, returned, first, grp>>
    /\ UNCHANGED <<sigPc, sigClosed, isVars, psVars>>

\* s.ListenAndServe() of the internal server: it fails to listen, or returns
\* ErrServerClosed at once after Shutdown, or serves.
IsListen ==
    /\ proc = "running"
    /\ isPc = "start"
    /\ \/ isPc' = "done" /\ ActorReturn("is", "err")
       \/ ~isShut /\ isPc' = "serving" /\ UNCHANGED <<returned, first>>
    /\ UNCHANGED <<cfg, extVars, now, cancelled, schedVars, grp, proc>>
    /\ UNCHANGED <<sigVars, isShut, isBusy, psVars>>

\* Serve returns ErrServerClosed once Shutdown has closed the listener.
IsReturn ==
    /\ proc = "running"
    /\ isPc = "serving"
    /\ isShut
    /\ isPc' = "done"
    /\ ActorReturn("is", "err")
    /\ UNCHANGED <<cfg, extVars, now, cancelled, schedVars, grp, proc>>
    /\ UNCHANGED <<sigVars, isShut, isBusy, psVars>>

\* A client opens a connection to the internal server, or ends it.
IsConn ==
    /\ proc = "running"
    /\ \/ isPc = "serving" /\ ~isShut /\ ~isBusy /\ isBusy' = TRUE
       \/ isBusy /\ isBusy' = FALSE
    /\ UNCHANGED <<cfg, extVars, now, cancelled, schedVars, returned, first, grp, proc>>
    /\ UNCHANGED <<sigVars, isPc, isShut, psVars>>

\* s.ListenAndServe() of the proxy server.
PsListen ==
    /\ proc = "running"
    /\ psPc = "start"
    /\ \/ psPc' = "done" /\ ActorReturn("ps", "err")
       \/ ~psShut /\ psPc' = "serving" /\ UNCHANGED <<returned, first>>
    /\ UNCHANGED <<cfg, extVars, now, cancelled, schedVars, grp, proc>>
    /\ UNCHANGED <<sigVars, isVars, psShut, psBusy, pcancelled>>

PsReturn ==
    /\ proc = "running"
    /\ psPc = "serving"
    /\ psShut
    /\ psPc' = "done"
    /\ ActorReturn("ps", "err")
    /\ UNCHANGED <<cfg, extVars, now, cancelled, schedVars, grp, proc>>
    /\ UNCHANGED <<sigVars, isVars, psShut, psBusy, pcancelled>>

\* A client's request to the proxy server begins, or ends.
PsConn ==
    /\ proc = "running"
    /\ \/ psPc = "serving" /\ ~psShut /\ ~psBusy /\ psBusy' = TRUE
       \/ psBusy /\ psBusy' = FALSE
    /\ UNCHANGED <<cfg, extVars, now, cancelled, schedVars, returned, first, grp, proc>>
    /\ UNCHANGED <<sigVars, isVars, psPc, psShut, pcancelled>>

\* run.Group.Run: err := <-errors, the result of the first actor to return.
GroupFirst ==
    /\ proc = "running"
    /\ grp = "run"
    /\ first # "none"
    /\ grp' = "i_sig"
    /\ UNCHANGED <<cfg, extVars, now, cancelled, schedVars, returned, first, proc>>
    /\ UNCHANGED <<sigVars, isVars, psVars>>

\* The signal actor's interrupt: close(sig).
InterruptSig ==
    /\ proc = "running"
    /\ grp = "i_sig"
    /\ sigClosed' = TRUE
    /\ grp' = "i_is"
    /\ UNCHANGED <<cfg, extVars, now, cancelled, schedVars, returned, first, proc>>
    /\ UNCHANGED <<sigPc, sigBuf, signals, isVars, psVars>>

\* The internal server's interrupt: s.Shutdown(context.Background()) closes
\* the listener and then waits until no connection is active.
InterruptInternal ==
    /\ proc = "running"
    /\ \/ grp = "i_is" /\ isShut' = TRUE /\ grp' = "i_is_wait"
       \/ grp = "i_is_wait" /\ ~isBusy /\ grp' = AfterInternal /\ UNCHANGED isShut
    /\ UNCHANGED <<cfg, extVars, now, cancelled, schedVars, returned, first, proc>>
    /\ UNCHANGED <<sigVars, isPc, isBusy, psVars>>

\* The file-mode actor's interrupt, called by Run.
InterruptFile ==
    /\ proc = "running"
    /\ grp = "i_file"
    /\ cancelled' = TRUE
    /\ grp' = AfterFile
    /\ UNCHANGED <<cfg, extVars, now, schedVars, returned, first, proc>>
    /\ UNCHANGED <<sigVars, isVars, psVars>>

\* Mutant: the proxy actor's interrupt cancels the context before Shutdown.
InterruptProxy_CancelFirst ==
    /\ proc = "running"
    /\ \/ grp = "i_ps" /\ psShut' = TRUE /\ pcancelled' = TRUE /\ grp' = "i_ps_wait"
       \/ grp = "i_ps_wait" /\ ~psBusy /\ grp' = "wait" /\ UNCHANGED <<psShut, pcancelled>>
    /\ UNCHANGED <<cfg, extVars, now, cancelled, schedVars, returned, first, proc>>
    /\ UNCHANGED <<sigVars, isVars, psPc, psBusy>>

\* The proxy actor's interrupt: s.Shutdown(context.Background()), then cancel().
InterruptProxy ==
    /\ proc = "running"
    /\ \/ grp = "i_ps" /\ psShut' = TRUE /\ grp' = "i_ps_wait" /\ UNCHANGED pcancelled
       \/ grp = "i_ps_wait" /\ ~psBusy /\ pcancelled' = TRUE /\ grp' = "wait"
          /\ UNCHANGED psShut
    /\ UNCHANGED <<cfg, extVars, now, cancelled, schedVars, returned, first, proc>>
    /\ UNCHANGED <<sigVars, isVars, psPc, psBusy>>

\* Run has received the result of every actor and returns the first one;
\* main exits, through stdlog.Fatal when it is an error.
GroupReturn ==
    /\ proc = "running"
    /\ grp = "wait"
    /\ returned = Actors
    /\ grp' = "done"
    /\ proc' = IF first = "err" THEN "fatal" ELSE "exit"
    /\ UNCHANGED <<cfg, extVars, now, cancelled, schedVars, returned, first>>
    /\ UNCHANGED <<sigVars, isVars, psVars>>

\* -------------------------------------------------------------------- net/url
\* A string is a sequence of symbols.  In a path, "%2F", "%20" and "%zz" each
\* stand for one three-byte escape sequence: an escaped slash, an escaped
\* space, and an escape that is not hexadecimal.
MaxPathLen == 3

SeqsUpTo(S, n) == UNION {[1..k -> S] : k \in 0..n}

\* The raw paths of the upstream URLs (a) and of the request URLs (b).
AlphaA == {"/", "x", "%2F", " "}

AlphaB == {"/", "y", "%2F", " "}

HasSuffixSlash(s) == Len(s) > 0 /\ s[Len(s)] = "/"

HasPrefixSlash(s) == Len(s) > 0 /\ s[1] = "/"

\* s[1:]
From1(s) == SubSeq(s, 2, Len(s))

\* url.unescape(s, encodePath): every escape sequence becomes its byte; an
\* escape that is not hexadecimal is an error.
UnescapeFails(s) == \E i \in 1..Len(s) : s[i] = "%zz"

unescape(s) ==
    [i \in 1..Len(s) |->
        CASE s[i] = "%2F" -> "/"
          [] s[i] = "%20" -> " "
          [] OTHER -> s[i]]

\* url.escape(s, encodePath): a space is escaped, a slash and a letter are not.
escape(s) == [i \in 1..Len(s) |-> IF s[i] = " " THEN "%20" ELSE s[i]]

\* url.validEncoded(s, encodePath): no byte that escape would have escaped.
validEncoded(s) == \A i \in 1..Len(s) : s[i] # " "

\* The nil *url.URL.
NoURL == [Scheme |-> "", Host |-> "", Path |-> <<>>, RawPath |-> <<>>]

\* URL.setPath(p): Path is the unescaped p, and RawPath is p only when p is
\* not the default encoding of Path.
setPath(u, p) ==
    [u EXCEPT !.Path = unescape(p),
              !.RawPath = IF p = escape(unescape(p)) THEN <<>> ELSE p]

\* URL.EscapedPath(): RawPath when it is a valid encoding of Path, and the
\* default encoding of Path otherwise.
EscapedPath(u) ==
    IF u.RawPath # <<>> /\ validEncoded(u.RawPath) /\ unescape(u.RawPath) = u.Path
    THEN u.RawPath
    ELSE escape(u.Path)

\* A raw URL on the command line is scheme, host and then the path's symbols;
\* url.Parse fails on a path with a bad escape.
ParseFails(raw) == UnescapeFails(SubSeq(raw, 3, Len(raw)))

Parse(raw) ==
    setPath([Scheme |-> raw[1], Host |-> raw[2], Path |-> <<>>, RawPath |-> <<>>],
            SubSeq(raw, 3, Len(raw)))

\* ------------------------------------------ singleJoiningSlash, joinURLPath
\* Mutant: two slashes at the junction are both kept.
singleJoiningSlash_KeepBoth(a, b) ==
    IF ~HasSuffixSlash(a) /\ ~HasPrefixSlash(b) THEN a \o <<"/">> \o b ELSE a \o b

singleJoiningSlash(a, b) ==
    LET aslash == HasSuffixSlash(a)
        bslash == HasPrefixSlash(b)
    IN  IF aslash /\ bslash THEN a \o From1(b)
        ELSE IF ~aslash /\ ~bslash THEN a \o <<"/">> \o b
        ELSE a \o b

\* Mutant: the slash decision for the plain paths is taken on the plain paths.
joinURLPath_PlainDecision(a, b) ==
    IF a.RawPath = <<>> /\ b.RawPath = <<>>
    THEN [path |-> singleJoiningSlash(a.Path, b.Path), rawpath |-> <<>>]
    ELSE [path |-> singleJoiningSlash(a.Path, b.Path),
          rawpath |-> singleJoiningSlash(EscapedPath(a), EscapedPath(b))]

joinURLPath(a, b) ==
    IF a.RawPath = <<>> /\ b.RawPath = <<>>
    THEN [path |-> singleJoiningSlash(a.Path, b.Path), rawpath |-> <<>>]
    ELSE LET apath == EscapedPath(a)
             bpath == EscapedPath(b)
             aslash == HasSuffixSlash(apath)
             bslash == HasPrefixSlash(bpath)
         IN  IF aslash /\ bslash
             THEN [path |-> a.Path \o From1(b.Path), rawpath |-> apath \o From1(bpath)]
             ELSE IF ~aslash /\ ~bslash
             THEN [path |-> a.Path \o <<"/">> \o b.Path,
                   rawpath |-> apath \o <<"/">> \o bpath]
             ELSE [path |-> a.Path \o b.Path, rawpath |-> apath \o bpath]

NoJoin == [done |-> FALSE, path |-> <<>>, rawpath |-> <<>>]

NoSingle == [done |-> FALSE, path |-> <<>>]

\* The Director calls joinURLPath(cfg.upstream.url, request.URL).
JoinURLPath ==
    /\ ~jres.done
    /\ jres' = [done |-> TRUE, path |-> joinURLPath(ja, jb).path,
                rawpath |-> joinURLPath(ja, jb).rawpath]
    /\ UNCHANGED <<cfg, startVars, ja, jb, sres, envVars, proxyVars, now, cancelled>>
    /\ UNCHANGED <<schedVars, groupVars>>

\* joinURLPath calls singleJoiningSlash(a.Path, b.Path).
SingleJoiningSlash ==
    /\ ~sres.done
    /\ sres' = [done |-> TRUE, path |-> singleJoiningSlash(ja.Path, jb.Path)]
    /\ UNCHANGED <<cfg, startVars, ja, jb, jres, envVars, proxyVars, now, cancelled>>
    /\ UNCHANGED <<schedVars, groupVars>>

\* ----------------------------------------------------------------- parseFlags
LogLevels == {"error", "warn", "info", "debug"}

\* The raw URLs that --url and --upstream.url can hold; <<>> is the unset flag.
RawURLs ==
    {<<>>, <<"http", "api", "/", "x">>, <<"https", "obs", "/", "x", "/">>,
     <<"http", "api", "/", "%zz">>}

\* The flags that decide what main does; the margin is the one of LifeInit.
FlagSets ==
    [logLevel : {"info", "verbose"}, url : RawURLs, upstreamURL : RawURLs,
     file : {<<>>, File}, tempFile : {<<>>, File},
     audience : {"", "aud"}, username : {"", "user"}, password : {"", "pass"},
     scope : {<<>>, <<"s1", "s2">>}, caFile : {"", "ca.pem"},
     clientID : {"id"}, clientSecret : {"secret"}]

NoFlags ==
    [logLevel |-> "info", url |-> <<>>, upstreamURL |-> <<>>, file |-> <<>>,
     tempFile |-> <<>>, audience |-> "", username |-> "", password |-> "",
     scope |-> <<>>, caFile |-> "", clientID |-> "", clientSecret |-> ""]

NoCfg ==
    [file |-> <<>>, tempFile |-> <<>>, margin |-> 15, upstream |-> FALSE,
     url |-> NoURL, audience |-> "", username |-> "", password |-> "",
     scope |-> <<>>, caFile |-> "", clientID |-> "", clientSecret |-> ""]

FlagError(msg) == [err |-> msg, cfg |-> NoCfg]

\* The upstream URL that parseFlags leaves in cfg.upstream.url.
UpstreamOf(f) ==
    IF f.upstreamURL # <<>> THEN Parse(f.upstreamURL)
    ELSE IF f.url # <<>> THEN Parse(f.url)
    ELSE NoURL

\* Mutant: the two URL flags are not checked against each other.
ParseFlags_BothURLs(f) ==
    IF f.logLevel \notin LogLevels THEN FlagError("unexpected log level")
    ELSE IF f.url # <<>> /\ ParseFails(f.url) THEN FlagError("parse")
    ELSE IF f.upstreamURL # <<>> /\ ParseFails(f.upstreamURL) THEN FlagError("parse")
    ELSE IF f.file = <<>> /\ UpstreamOf(f) = NoURL
    THEN FlagError("one of --file or --upstream.url is required")
    ELSE [err |-> "",
          cfg |-> [file |-> f.file, tempFile |-> TempFileDefault(f.file, f.tempFile),
                   margin |-> 15, upstream |-> UpstreamOf(f) # NoURL,
                   url |-> UpstreamOf(f), audience |-> f.audience,
                   username |-> f.username, password |-> f.password,
                   scope |-> f.scope, caFile |-> f.caFile,
                   clientID |-> f.clientID, clientSecret |-> f.clientSecret]]

\* Mutant: a command line without --file and without an upstream URL passes.
ParseFlags_NoModeCheck(f) ==
    IF f.logLevel \notin LogLevels THEN FlagError("unexpected log level")
    ELSE IF f.url # <<>> /\ f.upstreamURL # <<>>
    THEN FlagError("use only one of --url or --upstream.url")
    ELSE IF f.url # <<>> /\ ParseFails(f.url) THEN FlagError("parse")
    ELSE IF f.upstreamURL # <<>> /\ ParseFails(f.upstreamURL) THEN FlagError("parse")
    ELSE [err |-> "",
          cfg |-> [file |-> f.file, tempFile |-> TempFileDefault(f.file, f.tempFile),
                   margin |-> 15, upstream |-> UpstreamOf(f) # NoURL,
                   url |-> UpstreamOf(f), audience |-> f.audience,
                   username |-> f.username, password |-> f.password,
                   scope |-> f.scope, caFile |-> f.caFile,
                   clientID |-> f.clientID, clientSecret |-> f.clientSecret]]

\* parseFlags: the checks in the order of the code, then the default of
\* --temp-file.
ParseFlags(f) ==
    IF f.logLevel \notin LogLevels THEN FlagError("unexpected log level")
    ELSE IF f.url # <<>> /\ f.upstreamURL # <<>>
    THEN FlagError("use only one of --url or --upstream.url")
    ELSE IF f.url # <<>> /\ ParseFails(f.url) THEN FlagError("parse")
    ELSE IF f.upstreamURL # <<>> /\ ParseFails(f.upstreamURL) THEN FlagError("parse")
    ELSE IF f.file = <<>> /\ UpstreamOf(f) = NoURL
    THEN FlagError("one of --file or --upstream.url is required")
    ELSE [err |-> "",
          cfg |-> [file |-> f.file, tempFile |-> TempFileDefault(f.file, f.tempFile),
                   margin |-> 15, upstream |-> UpstreamOf(f) # NoURL,
                   url |-> UpstreamOf(f), audience |-> f.audience,
                   username |-> f.username, password |-> f.password,
                   scope |-> f.scope, caFile |-> f.caFile,
                   clientID |-> f.clientID, clientSecret |-> f.clientSecret]]

\* ------------------------------------------------ clientcredentials.Config
\* url.Values is a set of <<key, value>> pairs, each value a string.
\* strings.Join(s, " ")
JoinSpace(s) ==
    [i \in 1..(IF Len(s) = 0 THEN 0 ELSE 2 * Len(s) - 1) |->
        IF i % 2 = 1 THEN s[(i + 1) \div 2] ELSE " "]

AudienceParams(c) == {<<"audience", <<c.audience>>>>}

PasswordParams(c) ==
    {<<"username", <<c.username>>>>, <<"password", <<c.password>>>>,
     <<"grant_type", <<"password">>>>}

ScopeParams(c) == {<<"scope", JoinSpace(c.scope)>>}

\* Mutant: each option adds its parameters to the ones already there.
EndpointParams_Merge(c) ==
    (IF c.audience # "" THEN AudienceParams(c) ELSE {})
    \cup (IF c.username # "" /\ c.password # "" THEN PasswordParams(c) ELSE {})
    \cup (IF Len(c.scope) # 0 THEN ScopeParams(c) ELSE {})

\* ccc.EndpointParams after the three if statements of main: each one that
\* applies assigns a new url.Values.
EndpointParams(c) ==
    LET p1 == IF c.audience # "" THEN AudienceParams(c) ELSE {}
        p2 == IF c.username # "" /\ c.password # "" THEN PasswordParams(c) ELSE p1
        p3 == IF Len(c.scope) # 0 THEN ScopeParams(c) ELSE p2
    IN  p3

Keys(v) == {kv[1] : kv \in v}

\* The form of the token request of clientcredentials: grant_type is
\* client_credentials unless EndpointParams overrides it.
TokenRequest(params) ==
    {kv \in {<<"grant_type", <<"client_credentials">>>>} : kv[1] \notin Keys(params)}
    \cup params

\* The token endpoints that the issuer's discovery document can name.
TokenURLs == {"https://idp/token", "https://sso/token"}

\* ccc := clientcredentials.Config{ClientID: ..., ClientSecret: ..., TokenURL:
\* provider.Endpoint().TokenURL}
ConfigOf(c, tokenURL) ==
    [ClientID |-> c.clientID, ClientSecret |-> c.clientSecret, TokenURL |-> tokenURL]

\* ----------------------------------------------------------- main before g.Run
\* cfg, err := parseFlags(); stdlog.Fatal(err) on an error.
ParseFlagsStep ==
    /\ boot = "flags"
    /\ IF ParseFlags(flags).err # ""
       THEN /\ boot' = "flagError"
            /\ proc' = "fatal"
            /\ UNCHANGED cfg
       ELSE /\ boot' = "provider"
            /\ cfg' = ParseFlags(flags).cfg
            /\ UNCHANGED proc
    /\ UNCHANGED <<flags, ccc, conf, pathVars, envVars, proxyVars, now, cancelled, schedVars>>
    /\ UNCHANGED <<returned, first, grp, sigVars, isVars, psVars>>

\* Mutant: the actors are started before the discovery request is made.
NewProviderStep_StartFirst ==
    /\ boot = "provider"
    /\ pc' = IF cfg.file = <<>> THEN "none" ELSE "fetch"
    /\ psPc' = IF cfg.upstream THEN "start" ELSE "none"
    /\ \/ /\ boot' = "providerError"
          /\ proc' = "fatal"
          /\ UNCHANGED <<ccc, conf>>
       \/ /\ boot' = "run"
          /\ proc' = "running"
          /\ ccc' = EndpointParams(cfg)
          /\ \E u \in TokenURLs : conf' = ConfigOf(cfg, u)
    /\ UNCHANGED <<cfg, flags, pathVars, envVars, proxyVars, now, cancelled>>
    /\ UNCHANGED <<t, d, started, fs, outcome, fails, preFinal, pub>>
    /\ UNCHANGED <<returned, first, grp, sigVars, isVars, psShut, psBusy, pcancelled>>

\* oidc.NewProvider fetches the discovery document of the issuer: on an error
\* stdlog.Fatalf.  Otherwise main builds ccc and adds the actors of the
\* configured modes; in proxy mode with --upstream.ca-file it reads that file,
\* and stdlog.Fatalf when it cannot.  Then g.Run starts the actors.
NewProviderStep ==
    /\ boot = "provider"
    /\ \/ /\ boot' = "providerError"
          /\ proc' = "fatal"
          /\ UNCHANGED <<ccc, conf, pc, psPc>>
       \/ /\ cfg.upstream
          /\ cfg.caFile # ""
          /\ boot' = "caError"
          /\ proc' = "fatal"
          /\ ccc' = EndpointParams(cfg)
          /\ \E u \in TokenURLs : conf' = ConfigOf(cfg, u)
          /\ UNCHANGED <<pc, psPc>>
       \/ /\ boot' = "run"
          /\ proc' = "running"
          /\ ccc' = EndpointParams(cfg)
          /\ \E u \in TokenURLs : conf' = ConfigOf(cfg, u)
          /\ pc' = IF cfg.file = <<>> THEN "none" ELSE "fetch"
          /\ psPc' = IF cfg.upstream THEN "start" ELSE "none"
    /\ UNCHANGED <<cfg, flags, pathVars, envVars, proxyVars, now, cancelled>>
    /\ UNCHANGED <<t, d, started, fs, outcome, fails, preFinal, pub>>
    /\ UNCHANGED <<returned, first, grp, sigVars, isVars, psShut, psBusy, pcancelled>>

\* ------------------------------------------------------------ the proxy server
MaxProxyTime == 4

\* The requests that the proxy server handles at the same time.
Requests == {1, 2}

NoHeader == [scheme |-> "", cred |-> <<>>]

\* What a client sends: the request URL, and the headers that the proxy
\* touches.
Incoming ==
    {[url |-> setPath(NoURL, <<"/", "y">>), host |-> "proxy", prefix |-> <<>>,
      auth |-> NoHeader],
     [url |-> setPath(NoURL, <<"/", "%2F", "y">>), host |-> "proxy",
      prefix |-> <<"/old">>, auth |-> [scheme |-> "Basic", cred |-> <<"c", "0">>]]}

NoIncoming == [url |-> NoURL, host |-> "", prefix |-> <<>>, auth |-> NoHeader]

\* The request that the proxy has not yet built.
NoOut ==
    [Scheme |-> "", Host |-> "", URLHost |-> "", Path |-> <<>>, RawPath |-> <<>>,
     Prefix |-> <<>>, Authorization |-> NoHeader]

IdleRequest == [pc |-> "idle", in |-> NoIncoming, out |-> NoOut, tok |-> NoToken]

\* Mutant: the Director keeps the path of the incoming request.
Director_KeepPath(in) ==
    [Scheme |-> cfg.url.Scheme, Host |-> cfg.url.Host, URLHost |-> cfg.url.Host,
     Path |-> in.url.Path, RawPath |-> in.url.RawPath,
     Prefix |-> in.prefix \o <<"/">>, Authorization |-> in.auth]

\* The Director of the ReverseProxy, applied to the incoming request.
Director(in) ==
    [Scheme |-> cfg.url.Scheme, Host |-> cfg.url.Host, URLHost |-> cfg.url.Host,
     Path |-> joinURLPath(cfg.url, in.url).path,
     RawPath |-> joinURLPath(cfg.url, in.url).rawpath,
     Prefix |-> in.prefix \o <<"/">>, Authorization |-> in.auth]

\* oauth2.Transport.RoundTrip: token.SetAuthHeader on a copy of the request.
SetAuthHeader(req, tok) ==
    [req EXCEPT !.Authorization = [scheme |-> "Bearer", cred |-> tok.AccessToken]]

\* The proxy handler starts on a request: the Director rewrites it into the
\* outgoing request, and oauth2.Transport.RoundTrip is about to call
\* Source.Token().
PArrive(i) ==
    /\ proc = "running"
    /\ psPc = "serving"
    /\ ~psShut
    /\ rq[i].pc = "idle"
    /\ \E in \in Incoming :
          rq' = [rq EXCEPT ![i] = [pc |-> "token", in |-> in, out |-> Director(in),
                                   tok |-> NoToken]]
    /\ psBusy' = TRUE
    /\ UNCHANGED <<cfg, startVars, pathVars, envVars, ptok, mu, now, cancelled, schedVars>>
    /\ UNCHANGED <<returned, first, grp, proc, sigVars, isVars>>
    /\ UNCHANGED <<psPc, psShut, pcancelled>>

\* Mutant: the cached token is read without the mutex.
PToken_NoWait(i) ==
    /\ proc = "running"
    /\ rq[i].pc = "token"
    /\ IF Valid(ptok, now) \/ mu # 0
       THEN /\ rq' = [rq EXCEPT ![i].pc = "send", ![i].tok = ptok,
                                 ![i].out = SetAuthHeader(rq[i].out, ptok)]
            /\ UNCHANGED mu
       ELSE /\ rq' = [rq EXCEPT ![i].pc = "fetch"]
            /\ mu' = i
    /\ UNCHANGED <<cfg, startVars, pathVars, envVars, ptok, now, cancelled, schedVars>>
    /\ UNCHANGED groupVars

\* Mutant: a token request is started without the mutex.
PToken_NoLock(i) ==
    /\ proc = "running"
    /\ rq[i].pc = "token"
    /\ IF Valid(ptok, now)
       THEN /\ rq' = [rq EXCEPT ![i].pc = "send", ![i].tok = ptok,
                                 ![i].out = SetAuthHeader(rq[i].out, ptok)]
            /\ UNCHANGED mu
       ELSE /\ rq' = [rq EXCEPT ![i].pc = "fetch"]
            /\ mu' = i
    /\ UNCHANGED <<cfg, startVars, pathVars, envVars, ptok, now, cancelled, schedVars>>
    /\ UNCHANGED groupVars

\* Mutant: a token with less than the margin left is fetched again.
PToken_AtMargin(i) ==
    /\ proc = "running"
    /\ rq[i].pc = "token"
    /\ mu = 0
    /\ IF Valid(ptok, now) /\ (ptok.Expiry = ZeroTime \/ ptok.Expiry - now >= cfg.margin)
       THEN /\ rq' = [rq EXCEPT ![i].pc = "send", ![i].tok = ptok,
                                 ![i].out = SetAuthHeader(rq[i].out, ptok)]
            /\ UNCHANGED mu
       ELSE /\ rq' = [rq EXCEPT ![i].pc = "fetch"]
            /\ mu' = i
    /\ UNCHANGED <<cfg, startVars, pathVars, envVars, ptok, now, cancelled, schedVars>>
    /\ UNCHANGED groupVars

\* Mutant: the token source is not a reusing one; every request asks the token
\* endpoint.
PToken_NoReuse(i) ==
    /\ proc = "running"
    /\ rq[i].pc = "token"
    /\ mu = 0
    /\ rq' = [rq EXCEPT ![i].pc = "fetch"]
    /\ mu' = i
    /\ UNCHANGED <<cfg, startVars, pathVars, envVars, ptok, now, cancelled, schedVars>>
    /\ UNCHANGED groupVars

\* reuseTokenSource.Token(): with the mutex held, return the cached token when
\* it is valid, and otherwise ask the token endpoint, still holding the mutex.
PToken(i) ==
    /\ proc = "running"
    /\ rq[i].pc = "token"
    /\ mu = 0
    /\ IF Valid(ptok, now)
       THEN /\ rq' = [rq EXCEPT ![i].pc = "send", ![i].tok = ptok,
                                 ![i].out = SetAuthHeader(rq[i].out, ptok)]
            /\ UNCHANGED mu
       ELSE /\ rq' = [rq EXCEPT ![i].pc = "fetch"]
            /\ mu' = i
    /\ UNCHANGED <<cfg, startVars, pathVars, envVars, ptok, now, cancelled, schedVars>>
    /\ UNCHANGED groupVars

\* Mutant: a request whose token request failed is sent without a token.
PFetchReturn_SendAnyway(i) ==
    /\ proc = "running"
    /\ rq[i].pc = "fetch"
    /\ \E r \in FetchResults(now) :
          /\ pcancelled => r.err
          /\ rq' = [rq EXCEPT ![i].pc = "send", ![i].tok = r.t,
                               ![i].out = SetAuthHeader(rq[i].out, r.t)]
          /\ ptok' = IF r.err THEN ptok ELSE r.t
    /\ mu' = 0
    /\ treq' = SentRequest
    /\ UNCHANGED <<cfg, startVars, pathVars, healed, now, cancelled, schedVars, groupVars>>

\* Mutant: the proxy's token source has a configuration of its own, without
\* the endpoint parameters.
PFetchReturn_OwnConfig(i) ==
    /\ proc = "running"
    /\ rq[i].pc = "fetch"
    /\ \E r \in FetchResults(now) :
          /\ pcancelled => r.err
          /\ IF r.err
             THEN /\ rq' = [rq EXCEPT ![i].pc = "failed"]
                  /\ UNCHANGED ptok
             ELSE /\ rq' = [rq EXCEPT ![i].pc = "send", ![i].tok = r.t,
                                       ![i].out = SetAuthHeader(rq[i].out, r.t)]
                  /\ ptok' = r.t
    /\ mu' = 0
    /\ treq' = [sent |-> TRUE, conf |-> conf, params |-> {}]
    /\ UNCHANGED <<cfg, startVars, pathVars, healed, now, cancelled, schedVars, groupVars>>

\* The token request of reuseTokenSource.Token() returns.  On an error
\* RoundTrip returns it and the ReverseProxy answers 502 Bad Gateway; a token
\* is cached and the request goes to the upstream with it.
PFetchReturn(i) ==
    /\ proc = "running"
    /\ rq[i].pc = "fetch"
    /\ \E r \in FetchResults(now) :
          /\ pcancelled => r.err
          /\ IF r.err
             THEN /\ rq' = [rq EXCEPT ![i].pc = "failed"]
                  /\ UNCHANGED ptok
             ELSE /\ rq' = [rq EXCEPT ![i].pc = "send", ![i].tok = r.t,
                                       ![i].out = SetAuthHeader(rq[i].out, r.t)]
                  /\ ptok' = r.t
    /\ mu' = 0
    /\ treq' = SentRequest
    /\ UNCHANGED <<cfg, startVars, pathVars, healed, now, cancelled, schedVars, groupVars>>

\* The handler returns: the upstream's response, or the 502 of the proxy, has
\* been written to the client.
PDone(i) ==
    /\ proc = "running"
    /\ rq[i].pc \in {"send", "failed"}
    /\ rq' = [rq EXCEPT ![i] = IdleRequest]
    /\ psBusy' = \E j \in Requests \ {i} : rq[j].pc # "idle"
    /\ UNCHANGED <<cfg, startVars, pathVars, envVars, ptok, mu, now, cancelled, schedVars>>
    /\ UNCHANGED <<returned, first, grp, proc, sigVars, isVars>>
    /\ UNCHANGED <<psPc, psShut, pcancelled>>

\* A second passes in a process that runs the proxy alone.
PTick ==
    /\ proc = "running"
    /\ pc = "none"
    /\ now < MaxProxyTime
    /\ now' = now + 1
    /\ UNCHANGED <<cfg, extVars, cancelled, schedVars, groupVars>>

\* ------------------------------------------------------------ specification
\* main is past its startup, with no flag that matters to the actors.
StartIdle ==
    /\ flags = NoFlags
    /\ boot = "run"
    /\ ccc = EndpointParams(NoCfg)
    /\ conf = ConfigOf(NoCfg, "https://idp/token")
    /\ healed = FALSE
    /\ treq = NoReq

PathIdle ==
    /\ ja = NoURL
    /\ jb = NoURL
    /\ jres = NoJoin
    /\ sres = NoSingle

\* No request has reached the proxy and its token source holds no token.
ProxyIdle ==
    /\ rq = [i \in Requests |-> IdleRequest]
    /\ ptok = NoToken
    /\ mu = 0

\* g.Run() has started every actor; the refresh loop is in its first
\* iteration, at ccc.Token(ctx).
Started ==
    /\ now = 0
    /\ pc = IF cfg.file = <<>> THEN "none" ELSE "fetch"
    /\ t = NoToken
    /\ d = retryInterval
    /\ started = 0
    /\ cancelled = FALSE
    /\ fs = [p \in Paths |-> Absent]
    /\ outcome = "none"
    /\ fails = 0
    /\ preFinal = Absent
    /\ pub = NoPub
    /\ returned = {}
    /\ first = "none"
    /\ grp = "run"
    /\ proc = "running"
    /\ sigPc = "start"
    /\ sigBuf = 0
    /\ sigClosed = FALSE
    /\ signals = 0
    /\ isPc = "start"
    /\ isShut = FALSE
    /\ isBusy = FALSE
    /\ psPc = IF cfg.upstream THEN "start" ELSE "none"
    /\ psShut = FALSE
    /\ psBusy = FALSE
    /\ pcancelled = FALSE

\* The file-mode refresh loop alone, with every configuration of margin and
\* temp path; Cancel stands for the run.Group calling the actor's interrupt.
Init ==
    /\ cfg \in {[file |-> File, tempFile |-> TempFileDefault(File, tf), margin |-> m,
                  upstream |-> FALSE] : tf \in {<<>>, File}, m \in Margins}
    /\ StartIdle
    /\ PathIdle
    /\ ProxyIdle
    /\ Started
    /\ t = NoToken
    /\ d = retryInterval
    /\ started = 0
    /\ cancelled = FALSE
    /\ fs = [p \in Paths |-> Absent]
    /\ outcome = "none"
    /\ fails = 0
    /\ preFinal = Absent
    /\ pub = NoPub
    /\ returned = {}
    /\ first = "none"

Next ==
    \/ FetchReturn
    \/ WriteOpen
    \/ WriteData
    \/ Rename
    \/ TimerFire
    \/ SchedStop
    \/ Cancel
    \/ Tick

Spec == Init /\ [][Next]_vars

\* The whole run.Group with its actors, within one second (the clock stands
\* still, so only a timer with d <= 0 fires), for each choice of modes.
LifeInit ==
    /\ cfg \in {[file |-> f, tempFile |-> TempFileDefault(f, <<>>), margin |-> 15,
                  upstream |-> u] : f \in {<<>>, File}, u \in BOOLEAN}
    /\ cfg.file # <<>> \/ cfg.upstream
    /\ StartIdle
    /\ PathIdle
    /\ ProxyIdle
    /\ Started

LifeNext ==
    \/ FetchReturn
    \/ WriteOpen
    \/ WriteData
    \/ Rename
    \/ TimerFire
    \/ SchedStop
    \/ SigNotify
    \/ SigReceive
    \/ OSSignal
    \/ IsListen
    \/ IsReturn
    \/ IsConn
    \/ PsListen
    \/ PsReturn
    \/ PsConn
    \/ GroupFirst
    \/ InterruptSig
    \/ InterruptInternal
    \/ InterruptFile
    \/ InterruptProxy
    \/ GroupReturn

LifeSpec == LifeInit /\ [][LifeNext]_vars

\* main from its first statement, for every command line of FlagSets, up to
\* the first step of each actor that g.Run starts.
StartInit ==
    /\ flags \in FlagSets
    /\ boot = "flags"
    /\ cfg = NoCfg
    /\ ccc = {}
    /\ conf = NoConf
    /\ healed = FALSE
    /\ treq = NoReq
    /\ PathIdle
    /\ ProxyIdle
    /\ now = 0
    /\ pc = "none"
    /\ t = NoToken
    /\ d = retryInterval
    /\ started = 0
    /\ cancelled = FALSE
    /\ fs = [p \in Paths |-> Absent]
    /\ outcome = "none"
    /\ fails = 0
    /\ preFinal = Absent
    /\ pub = NoPub
    /\ returned = {}
    /\ first = "none"
    /\ grp = "run"
    /\ proc = "starting"
    /\ sigPc = "start"
    /\ sigBuf = 0
    /\ sigClosed = FALSE
    /\ signals = 0
    /\ isPc = "start"
    /\ isShut = FALSE
    /\ isBusy = FALSE
    /\ psPc = "none"
    /\ psShut = FALSE
    /\ psBusy = FALSE
    /\ pcancelled = FALSE

StartNext ==
    \/ ParseFlagsStep
    \/ NewProviderStep
    \/ SigNotify
    \/ IsListen
    \/ PsListen
    \/ FetchReturn

StartSpec == StartInit /\ [][StartNext]_vars

\* joinURLPath and singleJoiningSlash on every pair of URLs whose raw paths
\* have at most MaxPathLen symbols.
PathInit ==
    /\ cfg = NoCfg
    /\ StartIdle
    /\ ja \in {setPath(NoURL, p) : p \in SeqsUpTo(AlphaA, MaxPathLen)}
    /\ jb \in {setPath(NoURL, p) : p \in SeqsUpTo(AlphaB, MaxPathLen)}
    /\ jres = NoJoin
    /\ sres = NoSingle
    /\ ProxyIdle
    /\ Started

PathNext ==
    \/ JoinURLPath
    \/ SingleJoiningSlash

PathSpec == PathInit /\ [][PathNext]_vars

\* The proxy mode alone: the proxy server, its requests and its token source,
\* for each upstream URL.
ProxyInit ==
    /\ cfg \in {ParseFlags([NoFlags EXCEPT !.upstreamURL = u]).cfg :
                  u \in {r \in RawURLs : r # <<>> /\ ~ParseFails(r)}}
    /\ StartIdle
    /\ PathIdle
    /\ ProxyIdle
    /\ Started

ProxyNext ==
    \/ PsListen
    \/ \E i \in Requests : PArrive(i)
    \/ \E i \in Requests : PToken(i)
    \/ \E i \in Requests : PFetchReturn(i)
    \/ \E i \in Requests : PDone(i)
    \/ PTick

ProxySpec == ProxyInit /\ [][ProxyNext]_vars

\* Both modes at once within one second: the refresh loop of file mode next to
\* the proxy server with its requests and its token source.
BothInit ==
    /\ cfg \in {ParseFlags([NoFlags EXCEPT !.file = File, !.upstreamURL = u]).cfg :
                  u \in {<<"http", "api", "/", "x">>}}
    /\ StartIdle
    /\ PathIdle
    /\ ProxyIdle
    /\ Started

BothNext ==
    \/ FetchReturn
    \/ WriteOpen
    \/ WriteData
    \/ Rename
    \/ TimerFire
    \/ SchedStop
    \/ Cancel
    \/ PsListen
    \/ \E i \in Requests : PArrive(i)
    \/ \E i \in Requests : PToken(i)
    \/ \E i \in Requests : PFetchReturn(i)
    \/ \E i \in Requests : PDone(i)

BothSpec == BothInit /\ [][BothNext]_vars

\* The last moment at which a retry still ends within MaxTime.
HealBy == MaxTime - retryInterval - MaxFetchTime

\* From now on every token request returns a valid token and every write and
\* rename succeeds.
Heal ==
    /\ proc = "running"
    /\ ~healed
    /\ now <= HealBy
    /\ healed' = TRUE
    /\ UNCHANGED <<cfg, startVars, pathVars, treq, proxyVars, now, cancelled>>
    /\ UNCHANGED <<schedVars, groupVars>>

LiveFetchReturn == FetchReturn /\ (healed => pc' = "write")

LiveWriteOpen == WriteOpen /\ (healed => pc' = "wdata")

LiveWriteData == WriteData /\ (healed => pc' = "rename")

LiveRename == Rename /\ (healed => outcome' = "ok")

\* The refresh loop that is never cancelled, with an environment that fails as
\* it likes until Heal.  The Go runtime runs the loop's goroutine and its
\* timer, the token request returns (at the latest when it times out), and
\* time passes: weak fairness of each step.
LiveInit ==
    /\ cfg \in {[file |-> File, tempFile |-> TempFileDefault(File, <<>>), margin |-> m,
                  upstream |-> FALSE] : m \in Margins}
    /\ StartIdle
    /\ PathIdle
    /\ ProxyIdle
    /\ Started

LiveNext ==
    \/ Heal
    \/ LiveFetchReturn
    \/ LiveWriteOpen
    \/ LiveWriteData
    \/ LiveRename
    \/ TimerFire
    \/ Tick

LiveSpec ==
    /\ LiveInit
    /\ [][LiveNext]_vars
    /\ WF_vars(LiveFetchReturn)
    /\ WF_vars(LiveWriteOpen)
    /\ WF_vars(LiveWriteData)
    /\ WF_vars(LiveRename)
    /\ WF_vars(TimerFire)
    /\ WF_vars(Tick)

\* The refresh loop with an issuer whose tokens all live longer than the
\* margin, a file system that never fails, and a margin that is longer than a
\* token request takes.
SteadyMargins == {4, 15}

LongLived(tok, n) ==
    /\ tok.AccessToken # <<>>
    /\ tok.Expiry = ZeroTime \/ tok.Expiry - n > cfg.margin

SteadyFetchReturn == FetchReturn /\ LongLived(t', now)

SteadyWriteOpen == WriteOpen /\ pc' = "wdata"

SteadyWriteData == WriteData /\ pc' = "rename"

SteadyRename == Rename /\ outcome' = "ok"

SteadyInit ==
    /\ cfg \in {[file |-> File, tempFile |-> TempFileDefault(File, <<>>), margin |-> m,
                  upstream |-> FALSE] : m \in {x \in SteadyMargins : x > MaxFetchTime}}
    /\ StartIdle
    /\ PathIdle
    /\ ProxyIdle
    /\ Started

SteadyNext ==
    \/ SteadyFetchReturn
    \/ SteadyWriteOpen
    \/ SteadyWriteData
    \/ SteadyRename
    \/ TimerFire
    \/ Tick

SteadySpec == SteadyInit /\ [][SteadyNext]_vars

\* main from its first statement with both modes configured, for the command
\* lines of ConfFlags, and then the refresh loop and the proxy's requests side
\* by side.
ConfFlags ==
    {[NoFlags EXCEPT !.file = File, !.upstreamURL = <<"http", "api", "/", "x">>,
                     !.clientID = "id", !.clientSecret = "secret",
                     !.audience = o[1], !.scope = o[2], !.caFile = o[3],
                     !.tempFile = o[4]] :
        o \in {<<"aud", <<>>, "", <<>>>>, <<"", <<"s1", "s2">>, "ca.pem", <<>>>>,
               <<"", <<>>, "", File>>}}

ConfInit ==
    /\ StartInit
    /\ flags \in ConfFlags

ConfNext ==
    \/ ParseFlagsStep
    \/ NewProviderStep
    \/ FetchReturn
    \/ WriteOpen
    \/ WriteData
    \/ Rename
    \/ TimerFire
    \/ PsListen
    \/ \E i \in Requests : PArrive(i) \/ PToken(i) \/ PFetchReturn(i) \/ PDone(i)

ConfSpec == ConfInit /\ [][ConfNext]_vars

\* ------------------------------------------- the file-only variant (part_002)
\* The earlier main: one mode, no temp file, and the timer of the select is
\* computed from t in every case of the switch.  The ctx.Done() case of the
\* select and the actor's interrupt are the ones of the later main.
\* t, err := ccc.Token(ctx) returns.  With an error t is nil, the switch logs
\* the error, and time.NewTimer(t.Expiry.Sub(time.Now()) - cfg.margin) reads
\* t.Expiry through the nil pointer: the goroutine panics.  An invalid token
\* is logged and the select waits for its timer.
FileOnlyFetchReturn ==
    /\ proc = "running"
    /\ pc = "fetch"
    /\ \E r \in FetchResults(now) :
        /\ cancelled => r.err
        /\ t' = r.t
        /\ IF r.err
           THEN /\ outcome' = "err"
                /\ fails' = IF fails < MaxFails THEN fails + 1 ELSE fails
                /\ pc' = "panic"
                /\ proc' = "panic"
                /\ UNCHANGED <<d, started, fs, preFinal, pub>>
           ELSE IF ~Valid(r.t, now)
           THEN /\ outcome' = "invalid"
                /\ fails' = IF fails < MaxFails THEN fails + 1 ELSE fails
                /\ pc' = "sleep"
                /\ d' = NextWait(r.t, now, cfg.margin)
                /\ started' = now
                /\ UNCHANGED <<proc, fs, preFinal, pub>>
           ELSE /\ pc' = "write"
                /\ preFinal' = fs[cfg.file]
                /\ UNCHANGED <<proc, d, started, outcome, fails, fs, pub>>
    /\ treq' = SentRequest
    /\ UNCHANGED <<cfg, startVars, pathVars, healed, proxyVars, now, cancelled>>
    /\ UNCHANGED <<returned, first, grp, sigVars, isVars, psVars>>

\* ioutil.WriteFile(cfg.file, ...), first half: open with O_CREATE|O_TRUNC.
\* An error is logged and the select waits for the timer computed from t.
FileOnlyWriteOpen ==
    /\ proc = "running"
    /\ pc = "write"
    /\ \/ /\ fs' = [fs EXCEPT ![cfg.file] = Content(<<>>)]
          /\ pc' = "wdata"
          /\ UNCHANGED <<d, started, outcome, fails>>
       \/ /\ outcome' = "writeErr"
          /\ fails' = IF fails < MaxFails THEN fails + 1 ELSE fails
          /\ pc' = "sleep"
          /\ d' = NextWait(t, now, cfg.margin)
          /\ started' = now
          /\ UNCHANGED fs
    /\ UNCHANGED <<cfg, extVars, now, cancelled, t, preFinal, pub, groupVars>>

\* ioutil.WriteFile, second half: write the bytes and close; then the select.
FileOnlyWriteData ==
    /\ proc = "running"
    /\ pc = "wdata"
    /\ \/ /\ fs' = [fs EXCEPT ![cfg.file] = Content(t.AccessToken)]
          /\ outcome' = "ok"
          /\ fails' = 0
          /\ pub' = [done |-> TRUE, t |-> t, fresh |-> Fresh(t, now)]
       \/ /\ \E part \in StrictPrefixes(t.AccessToken) :
                fs' = [fs EXCEPT ![cfg.file] = Content(part)]
          /\ outcome' = "writeErr"
          /\ fails' = IF fails < MaxFails THEN fails + 1 ELSE fails
          /\ UNCHANGED pub
    /\ pc' = "sleep"
    /\ d' = NextWait(t, now, cfg.margin)
    /\ started' = now
    /\ UNCHANGED <<cfg, extVars, now, cancelled, t, preFinal, groupVars>>

\* case <-time.NewTimer(...).C: the next iteration calls ccc.Token(ctx).
FileOnlyTimerFire ==
    /\ proc = "running"
    /\ pc = "sleep"
    /\ TimerDue
    /\ pc' = "fetch"
    /\ t' = NoToken
    /\ preFinal' = Absent
    /\ started' = now
    /\ UNCHANGED <<cfg, extVars, now, cancelled, d, fs, outcome, fails, pub, groupVars>>

FileOnlyInit ==
    /\ cfg \in {[file |-> File, tempFile |-> <<>>, margin |-> m, upstream |-> FALSE] :
                  m \in Margins}
    /\ StartIdle
    /\ PathIdle
    /\ ProxyIdle
    /\ Started

FileOnlyNext ==
    \/ FileOnlyFetchReturn
    \/ FileOnlyWriteOpen
    \/ FileOnlyWriteData
    \/ FileOnlyTimerFire
    \/ SchedStop
    \/ Cancel
    \/ Tick

FileOnlySpec == FileOnlyInit /\ [][FileOnlyNext]_vars

\* -------------------------------------------------------------------- claims
Failed == {"err", "invalid", "writeErr", "renameErr"}

Publishing == {"write", "wdata", "rename"}

C2_WaitIsExpiryMinusMargin ==
    (pc = "sleep" /\ outcome = "ok")
        => LET w == t.Expiry - started - cfg.margin
           IN  IF w > 0 THEN d = w ELSE d <= 0

\* C3: after a failed or invalid fetch the wait is retryInterval, whatever the
\* number of failures before, the next fetch starts exactly retryInterval
\* later, and the step that fails neither stops the loop nor ends the process.
C3_RetryAfterFetchFailure ==
    /\ []((pc = "sleep" /\ outcome \in {"err", "invalid"}) => d = retryInterval)
    /\ [][(pc = "sleep" /\ outcome \in {"err", "invalid"} /\ pc' = "fetch")
            => now = started + retryInterval]_vars
    /\ [][(pc = "fetch" /\ pc' # "fetch")
            => (pc' \in {"sleep", "write"} /\ proc' = "running")]_vars

\* The third failed fetch in a row has waited out its retryInterval.
C3_Witness ==
    /\ pc = "sleep"
    /\ outcome \in {"err", "invalid"}
    /\ fails >= 2
    /\ now = started + retryInterval
    /\ now = 2 * retryInterval

\* C4: a failed temp write or rename ends the iteration like a failed fetch:
\* the wait is retryInterval, started at the failure, and the last published
\* token is not replaced by the fetched one.
C4_PublishFailureRetries ==
    /\ []((pc = "sleep" /\ outcome \in {"writeErr", "renameErr"}) => d = retryInterval)
    /\ [][(pc \in Publishing /\ pc' \notin Publishing /\ outcome' # "ok")
            => /\ pc' = "sleep"
               /\ outcome' \in {"writeErr", "renameErr"}
               /\ d' = retryInterval
               /\ started' = now
               /\ pub' = pub]_vars

\* A rename has failed for a token whose expiry would have given another wait.
C4_Witness ==
    /\ pc = "sleep"
    /\ outcome = "renameErr"
    /\ NextWait(t, now, cfg.margin) # retryInterval
    /\ d = retryInterval

\* What a reader of the final path may see: no file, or the complete access
\* token of the last successful publish.
FinalIsPublished ==
    \/ fs[cfg.file] = Absent
    \/ pub.done /\ fs[cfg.file] = Content(pub.t.AccessToken)

\* C5, as claimed: at every point a reader of the final path sees no file or
\* the complete access token of an earlier successful publish.
C5_FinalNeverPartial == FinalIsPublished

\* C5, amended: the same, when the temp path differs from the final path.
C5_FinalNeverPartialDistinct == cfg.tempFile # cfg.file => FinalIsPublished

\* Between the temp write and the rename: the temp path holds the new token,
\* the final path still the old one.
C5_Witness ==
    /\ cfg.tempFile # cfg.file
    /\ pc = "rename"
    /\ pub.done
    /\ fs[cfg.file] = Content(pub.t.AccessToken)
    /\ fs[cfg.tempFile] = Content(t.AccessToken)
    /\ t.AccessToken # pub.t.AccessToken

\* C6, as claimed: after a failed publish the final path holds what it held
\* when the publish attempt began.
C6_FailedPublishKeepsFinal ==
    (pc = "sleep" /\ outcome \in {"writeErr", "renameErr"}) => fs[cfg.file] = preFinal

\* C6, amended: the same, when the temp path differs from the final path.
C6_FailedPublishKeepsFinalDistinct ==
    (cfg.tempFile # cfg.file /\ pc = "sleep" /\ outcome \in {"writeErr", "renameErr"})
        => fs[cfg.file] = preFinal

\* A rename has failed while the final path held an earlier token and the temp
\* path the new one.
C6_Witness ==
    /\ cfg.tempFile # cfg.file
    /\ pc = "sleep"
    /\ outcome = "renameErr"
    /\ preFinal.exists
    /\ fs[cfg.file] = preFinal
    /\ fs[cfg.tempFile] = Content(t.AccessToken)
    /\ t.AccessToken # preFinal.data

\* C7, as claimed: every content of the final path is the access token of a
\* token that passed the validity check in the cycle that wrote it.
C7_FinalIsValidatedToken ==
    fs[cfg.file].exists
        => \/ pub.done /\ pub.fresh /\ fs[cfg.file].data = pub.t.AccessToken
           \/ pc \in Publishing /\ Fresh(t, now) /\ fs[cfg.file].data = t.AccessToken

\* C7, amended: a file is written only in a cycle whose token is non-empty and
\* has at least expiryDelta of lifetime left (or no expiry), only with bytes of
\* that token, and when the temp path differs from the final path the final
\* path holds the complete access token of such a token.
C7_OnlyValidatedTokensWritten ==
    /\ [][fs' # fs
            => /\ pc \in Publishing
               /\ t.AccessToken # <<>>
               /\ Fresh(t, now)
               /\ \A p \in Paths :
                    fs'[p] # fs[p]
                        => fs'[p] = Absent \/ IsPrefix(fs'[p].data, t.AccessToken)]_vars
    /\ []((cfg.tempFile # cfg.file /\ fs[cfg.file].exists)
            => (pub.done /\ pub.fresh /\ fs[cfg.file].data = pub.t.AccessToken))

\* A fetched token failed the validity check after an earlier publish, and the
\* files are as that publish left them.
C7_Witness ==
    /\ pc = "sleep"
    /\ outcome = "invalid"
    /\ t.AccessToken # <<>>
    /\ ~Fresh(t, now)
    /\ pub.done
    /\ fs[cfg.file] = Content(pub.t.AccessToken)
    /\ t.AccessToken # pub.t.AccessToken
    /\ fs[cfg.tempFile].data # t.AccessToken

\* C8: the loop stops only from its select and only with the context
\* cancelled, never from the step of a fetch, validity check, write or rename;
\* once stopped it fetches and writes nothing.
C8_StoppedOnlyByCancel ==
    /\ [][(pc # "stopped" /\ pc' = "stopped") => (pc = "sleep" /\ cancelled)]_vars
    /\ [][pc = "stopped"
            => (pc' = "stopped" /\ fs' = fs /\ t' = t /\ pub' = pub /\ outcome' = outcome)]_vars

\* The loop has stopped after an iteration that failed, with a token published
\* before.
C8_Witness ==
    /\ pc = "stopped"
    /\ cancelled
    /\ outcome \in Failed
    /\ pub.done

\* C9, as claimed (its last part): the process exits only after every actor
\* of the run.Group has returned.
C9_ExitOnlyAfterAllReturned ==
    proc \in {"exit", "fatal", "panic"} => returned = Actors

\* C10: a sleeping loop whose context is cancelled can stop at once, whatever
\* is left of its timer; time does not pass before it leaves the select, and it
\* leaves the select only through the timer or the cancellation.
C10_CancelInterruptsSleep ==
    /\ []((proc = "running" /\ pc = "sleep" /\ cancelled) => ENABLED SchedStop)
    /\ [][(pc = "sleep" /\ cancelled) => now' = now]_vars
    /\ [][(pc = "sleep" /\ pc' # "sleep")
            => \/ pc' = "fetch" /\ TimerDue
               \/ pc' = "stopped" /\ cancelled]_vars

\* The loop has stopped with most of a long wait still ahead.
C10_Witness ==
    /\ pc = "stopped"
    /\ outcome = "ok"
    /\ d >= 2 * retryInterval
    /\ now = started

\* C11: in proxy mode, a request that finds no valid token and whose token
\* fetch fails (also the first request ever) is still forwarded to the
\* upstream, without a valid token: the proxy never fails the request itself.
C11_RequestNeverFailed == \A i \in Requests : rq[i].pc # "failed"

\* C11, amended: a request whose token fetch fails is answered by the proxy
\* with 502 and is not forwarded; a request on its way to the upstream carries
\* the access token that the token source returned for it, which is not empty.
C11_ForwardedOnlyWithToken ==
    /\ [](\A i \in Requests :
             rq[i].pc = "send" =>
                 /\ rq[i].tok.AccessToken # <<>>
                 /\ rq[i].out.Authorization.cred = rq[i].tok.AccessToken)
    /\ [][\A i \in Requests :
             (rq[i].pc # "failed" /\ rq'[i].pc = "failed") =>
                 rq[i].pc = "fetch" /\ ptok' = ptok]_vars
    /\ [][\A i \in Requests :
             (rq[i].pc = "failed" /\ rq'[i].pc # "failed") => rq'[i].pc = "idle"]_vars

C11_Witness ==
    \E i \in Requests : rq[i].pc = "failed" /\ ptok = NoToken /\ ~Valid(ptok, now)

\* C12: in proxy mode, obtaining the token for a request never waits for a
\* token fetch that is in progress.
C12_NeverWaitsForFetch == \A i \in Requests : rq[i].pc = "token" => mu = 0

\* C12, amended: while the token fetch of one request is in progress, another
\* request that needs the token waits for it; a request obtains its token only
\* when no fetch is in progress.
C12_WaitsWhileFetching ==
    /\ [](mu # 0 => rq[mu].pc = "fetch")
    /\ [](\A i \in Requests : rq[i].pc = "token" => (mu # 0 <=> ~ENABLED PToken(i)))
    /\ [][\A i \in Requests :
             (rq[i].pc = "token" /\ rq'[i].pc # "token") => mu = 0]_vars

C12_Witness ==
    \E i, j \in Requests : rq[i].pc = "fetch" /\ rq[j].pc = "token" /\ mu = i

\* C13: in proxy mode, at most one token fetch is in flight at any time, and
\* concurrent requests that find a valid cached token use it instead of each
\* starting a fetch of its own.
C13_OneFetchInFlight ==
    /\ [](Cardinality({i \in Requests : rq[i].pc = "fetch"}) <= 1)
    /\ [][\A i \in Requests :
             (rq[i].pc = "token" /\ rq'[i].pc # "token" /\ Valid(ptok, now)) =>
                 /\ rq'[i].pc = "send"
                 /\ rq'[i].tok = ptok
                 /\ ptok' = ptok]_vars

C13_Witness ==
    /\ \A i \in Requests : rq[i].pc = "send" /\ rq[i].tok = ptok
    /\ Valid(ptok, now)

\* The form that the claimed priority (password, then scope, then audience)
\* gives for the options c.
GrantByPriority(c) ==
    IF c.username # "" /\ c.password # ""
    THEN PasswordParams(c)
    ELSE {<<"grant_type", <<"client_credentials">>>>}
         \cup (IF Len(c.scope) # 0 THEN ScopeParams(c)
               ELSE IF c.audience # "" THEN AudienceParams(c)
               ELSE {})

\* C14: the extra parameters of the token request are chosen by priority: the
\* password grant with the credentials when username and password are both
\* set; otherwise the scope parameter when scopes are set; otherwise the
\* audience parameter when an audience is set.
C14_GrantByPriority == boot = "run" => TokenRequest(ccc) = GrantByPriority(cfg)

GrantShapes ==
    {{"audience"}, {"username", "password", "grant_type"}, {"scope"}}

\* C15: whatever the audience, username/password and scope options are, the
\* token request carries the parameters of at most one of the three grant
\* shapes; parameters of two shapes are never sent together.
C15_OneGrantShape ==
    boot = "run" =>
        /\ \E shape \in GrantShapes : Keys(ccc) \subseteq shape
        /\ \E shape \in GrantShapes :
              Keys(TokenRequest(ccc)) \subseteq shape \cup {"grant_type"}

C15_Witness ==
    /\ boot = "run"
    /\ cfg.audience # ""
    /\ cfg.username # ""
    /\ cfg.password # ""
    /\ Len(cfg.scope) # 0
    /\ Keys(TokenRequest(ccc)) = {"grant_type", "scope"}

\* No actor has made a network call, and no discovery request was sent.
NoNetworkCall ==
    /\ boot \in {"flags", "flagError"}
    /\ pc = "none"
    /\ isPc = "start"
    /\ psPc = "none"
    /\ t = NoToken

OneURLFlag(f) ==
    \/ f.url # <<>> /\ f.upstreamURL = <<>> /\ ~ParseFails(f.url)
    \/ f.url = <<>> /\ f.upstreamURL # <<>> /\ ~ParseFails(f.upstreamURL)

\* C16: when neither --file nor an upstream URL is set, startup fails with a
\* configuration error before any network call (discovery, token request,
\* listening socket); when both are set, the configuration is accepted.
C16_ModeRequired ==
    /\ (flags.file = <<>> /\ flags.url = <<>> /\ flags.upstreamURL = <<>>
        /\ boot # "run")
           => NoNetworkCall /\ (boot = "flags" \/ proc = "fatal")
    /\ (flags.file # <<>> /\ OneURLFlag(flags) /\ flags.logLevel \in LogLevels)
           => boot # "flagError"

C16_Witness ==
    /\ flags.file = <<>>
    /\ flags.url = <<>>
    /\ flags.upstreamURL = <<>>
    /\ flags.logLevel \in LogLevels
    /\ boot = "flagError"
    /\ proc = "fatal"

\* C17: --url and --upstream.url are mutually exclusive: with both non-empty,
\* startup fails with a configuration error; with exactly one of them set, its
\* parsed value is the upstream target.
C17_OneUpstreamFlag ==
    /\ (flags.url # <<>> /\ flags.upstreamURL # <<>> /\ boot # "run")
           => NoNetworkCall /\ (boot = "flags" \/ proc = "fatal")
    /\ (OneURLFlag(flags) /\ flags.logLevel \in LogLevels) => boot # "flagError"
    /\ (OneURLFlag(flags) /\ boot \notin {"flags", "flagError"})
           => /\ cfg.upstream
              /\ flags.url # <<>> =>
                    /\ cfg.url.Scheme = flags.url[1]
                    /\ cfg.url.Host = flags.url[2]
                    /\ cfg.url.Path = unescape(SubSeq(flags.url, 3, Len(flags.url)))
              /\ flags.upstreamURL # <<>> =>
                    /\ cfg.url.Scheme = flags.upstreamURL[1]
                    /\ cfg.url.Host = flags.upstreamURL[2]
                    /\ cfg.url.Path =
                          unescape(SubSeq(flags.upstreamURL, 3, Len(flags.upstreamURL)))

C17_Witness ==
    /\ flags.url # <<>>
    /\ flags.upstreamURL = <<>>
    /\ boot = "run"
    /\ cfg.upstream
    /\ cfg.url.Host = flags.url[2]
    /\ psPc = "serving"

TrimSuffixSlash(s) == IF HasSuffixSlash(s) THEN SubSeq(s, 1, Len(s) - 1) ELSE s

TrimPrefixSlash(s) == IF HasPrefixSlash(s) THEN From1(s) ELSE s

OneSlashJoin(a, b) == TrimSuffixSlash(a) \o <<"/">> \o TrimPrefixSlash(b)

\* C18: every request that the proxy forwards has the scheme and the host of
\* the upstream (URL host and Host field), the path of the upstream joined
\* with the incoming path, a header X-Forwarded-Prefix with the value "/", and
\* an Authorization header with the token that is current when it is sent.
C18_ForwardedRequest ==
    /\ [](\A i \in Requests :
             rq[i].pc = "send" =>
                 /\ rq[i].out.Scheme = cfg.url.Scheme
                 /\ rq[i].out.URLHost = cfg.url.Host
                 /\ rq[i].out.Host = cfg.url.Host
                 /\ IF cfg.url.RawPath = <<>> /\ rq[i].in.url.RawPath = <<>>
                    THEN /\ rq[i].out.Path = OneSlashJoin(cfg.url.Path, rq[i].in.url.Path)
                         /\ rq[i].out.RawPath = <<>>
                    ELSE /\ rq[i].out.RawPath =
                               OneSlashJoin(EscapedPath(cfg.url), EscapedPath(rq[i].in.url))
                         /\ rq[i].out.Path = unescape(rq[i].out.RawPath)
                 /\ Len(rq[i].out.Prefix) > 0
                 /\ rq[i].out.Prefix[Len(rq[i].out.Prefix)] = "/"
                 /\ rq[i].out.Authorization =
                        [scheme |-> "Bearer", cred |-> rq[i].tok.AccessToken])
    /\ [][\A i \in Requests :
             (rq[i].pc # "send" /\ rq'[i].pc = "send") => rq'[i].tok = ptok']_vars

C18_Witness ==
    \E i \in Requests :
        /\ rq[i].pc = "send"
        /\ cfg.url.Path = <<"/", "x">>
        /\ rq[i].in.url.Path = <<"/", "y">>
        /\ rq[i].out.Path = <<"/", "x", "/", "y">>
        /\ rq[i].out.Prefix = <<"/">>
        /\ rq[i].out.Authorization.cred = ptok.AccessToken

\* C19: joining a base path a and an incoming path b gives a without one
\* trailing slash, then one slash, then b without one leading slash; this is
\* the result of singleJoiningSlash, and the Path of joinURLPath when neither
\* URL has a RawPath.
C19_ExactlyOneSlash ==
    /\ sres.done => sres.path = OneSlashJoin(ja.Path, jb.Path)
    /\ (jres.done /\ ja.RawPath = <<>> /\ jb.RawPath = <<>>)
           => jres.path = OneSlashJoin(ja.Path, jb.Path)

C19_Witness ==
    /\ sres.done
    /\ jres.done
    /\ ja.Path = <<"/", "x", "/">>
    /\ ja.RawPath = <<>>
    /\ jb.Path = <<"/", "y">>
    /\ jb.RawPath = <<>>
    /\ sres.path = <<"/", "x", "/", "y">>
    /\ jres.path = <<"/", "x", "/", "y">>

\* The three ways of joining: drop b's first symbol, put a slash between, or
\* concatenate.
JoinBy(k, a, b) ==
    CASE k = "trim" -> a \o From1(b)
      [] k = "add" -> a \o <<"/">> \o b
      [] OTHER -> a \o b

\* C20: joinURLPath: when neither URL has a RawPath, the result is the
\* single-slash join of the plain paths with an empty RawPath; otherwise the
\* plain and the escaped forms are joined with the same slash decision, and the
\* returned Path is the unescaped form of the returned RawPath.
C20_PathMatchesRawPath ==
    jres.done =>
        IF ja.RawPath = <<>> /\ jb.RawPath = <<>>
        THEN /\ jres.path = singleJoiningSlash(ja.Path, jb.Path)
             /\ jres.rawpath = <<>>
        ELSE /\ \E k \in {"trim", "add", "cat"} :
                   /\ jres.path = JoinBy(k, ja.Path, jb.Path)
                   /\ jres.rawpath = JoinBy(k, EscapedPath(ja), EscapedPath(jb))
             /\ jres.path = unescape(jres.rawpath)

C20_Witness ==
    /\ jres.done
    /\ ja.RawPath = <<"/", "x", "%2F">>
    /\ jb.RawPath = <<>>
    /\ jb.Path = <<"/", "y">>
    /\ jres.rawpath = <<"/", "x", "%2F", "/", "y">>
    /\ jres.path = <<"/", "x", "/", "/", "y">>

\* C21: after a successful publish the final path holds exactly the bytes of
\* the new token's access token: nothing after them, nothing around them and
\* nothing of the previous content.
C21_FinalIsExactlyToken ==
    (pc = "sleep" /\ outcome = "ok") =>
        /\ fs[cfg.file] = Content(t.AccessToken)
        /\ pub.t = t

C21_Witness ==
    /\ pc = "sleep"
    /\ outcome = "ok"
    /\ preFinal.exists
    /\ preFinal.data # t.AccessToken
    /\ fs[cfg.file] = Content(t.AccessToken)

\* The publish steps (temp write, rename) can go on to a successful publish.
PublishCanSucceed ==
    /\ pc = "write" => ENABLED (WriteOpen /\ pc' = "wdata")
    /\ pc = "wdata" => ENABLED (WriteData /\ pc' = "rename")
    /\ pc = "rename" => ENABLED (Rename /\ outcome' = "ok")

\* C22: publishing is idempotent: when the token that is published is the one
\* that the final path already holds, the publish can succeed as the first one
\* did, and after it the final path has the content it had before.
C22_PublishIdempotent ==
    preFinal = Content(t.AccessToken) =>
        /\ PublishCanSucceed
        /\ (pc = "sleep" /\ outcome = "ok") => fs[cfg.file] = preFinal

C22_Witness ==
    /\ pc = "sleep"
    /\ outcome = "ok"
    /\ preFinal = Content(t.AccessToken)
    /\ fs[cfg.file] = preFinal
    /\ cfg.tempFile # cfg.file

\* C24: a fatal startup error (of the flags, of the OIDC discovery, of the CA
\* file) ends the process before any work: no refresh loop was started, no
\* token fetched, no file written, no server listens, no request was handled,
\* and nothing happens afterwards.
C24_FatalBeforeWork ==
    boot \in {"flagError", "providerError", "caError"} =>
        /\ proc = "fatal"
        /\ pc = "none"
        /\ t = NoToken
        /\ \A p \in Paths : fs[p] = Absent
        /\ sigPc = "start"
        /\ isPc = "start"
        /\ psPc = "none"
        /\ returned = {}
        /\ ProxyIdle
        /\ ~ENABLED StartNext

C24_Witness ==
    /\ boot = "providerError"
    /\ proc = "fatal"
    /\ cfg.file # <<>>
    /\ cfg.upstream

\* C25: the refresh loop never forms a tight loop: between the end of one
\* fetch attempt (the start of the select) and the start of the next there is
\* a strictly positive delay, also when the computed wait is zero or negative.
C25_PositiveDelay == [][(pc = "sleep" /\ pc' = "fetch") => now > started]_vars

\* C29: once the file-mode context is cancelled the loop starts no new token
\* fetch, whatever state it was in.
C29_NoFetchAfterCancel == [][cancelled => ~(pc # "fetch" /\ pc' = "fetch")]_vars

\* C30: once the first actor has returned, the file-mode context and the proxy
\* context get cancelled even while the Shutdown of the internal server or of
\* the proxy server waits for an active connection: where Run waits in a
\* Shutdown, the contexts are cancelled already or their cancel can run.
C30_CancelIndependentOfShutdown ==
    /\ (proc = "running" /\ grp = "i_is_wait" /\ isBusy /\ cfg.file # <<>>)
           => cancelled \/ ENABLED InterruptFile
    /\ (proc = "running" /\ grp = "i_is_wait" /\ isBusy /\ cfg.upstream)
           => pcancelled \/ ENABLED InterruptProxy
    /\ (proc = "running" /\ grp = "i_ps_wait" /\ psBusy) => pcancelled

\* The cached token expires within the margin.
WithinMargin(tok, n) ==
    tok.AccessToken # <<>> /\ tok.Expiry # ZeroTime /\ tok.Expiry - n < cfg.margin

\* C26: in proxy mode, as in file mode, a refresh is attempted margin before
\* the token's expiry: once the held token is within the margin of its expiry
\* a fetch of a new one is under way.
C26_ProxyRefreshAtMargin == WithinMargin(ptok, now) => mu # 0

\* C26, amended: in proxy mode there is no refresh schedule and the margin is
\* not used: a token is fetched only for a request that finds the cached token
\* missing or no longer valid (less than expiryDelta before its expiry), and the
\* cached token is replaced only then.
C26_ProxyRefreshOnDemand ==
    /\ [](mu # 0 => ~Valid(ptok, now))
    /\ [][ptok' # ptok =>
             /\ ~Valid(ptok, now)
             /\ \E i \in Requests : rq[i].pc = "fetch" /\ rq'[i].tok = ptok']_vars

C26_Witness ==
    \E i \in Requests :
        /\ rq[i].pc = "send"
        /\ rq[i].tok = ptok
        /\ WithinMargin(ptok, now)
        /\ Valid(ptok, now)
        /\ now > 0
        /\ mu = 0

\* C23: with --file and an upstream URL both modes run at the same time, each
\* with its own context and its own token: no step of one mode waits for the
\* other mode or changes its state, and cancelling the file-mode context
\* leaves the proxy's context alone.
C23_ModesIndependent ==
    /\ [](pc = "fetch" => ENABLED FetchReturn)
    /\ [](\A i \in Requests :
             /\ (rq[i].pc = "token" /\ mu = 0) => ENABLED PToken(i)
             /\ rq[i].pc = "fetch" => ENABLED PFetchReturn(i))
    /\ [][<<schedVars, cancelled>>' # <<schedVars, cancelled>>
             => UNCHANGED <<proxyVars, pcancelled, psPc, psShut, psBusy>>]_vars
    /\ [][proxyVars' # proxyVars => UNCHANGED <<schedVars, cancelled>>]_vars

C23_Witness ==
    /\ pc = "sleep"
    /\ outcome = "err"
    /\ cancelled
    /\ ~pcancelled
    /\ rq[1].pc = "send"
    /\ Valid(rq[1].tok, now)
    /\ rq[2].pc = "token"

\* C27: when the loop is never cancelled and, from some point on, every fetch
\* returns a valid token and every write and rename succeeds, then after the
\* failures before that point a token is published.
C27_EventuallyPublished == (healed /\ outcome # "ok") ~> (outcome = "ok" /\ pub.done)

C27_Witness ==
    /\ healed
    /\ now >= retryInterval
    /\ ~preFinal.exists
    /\ pc = "sleep"
    /\ outcome = "ok"
    /\ pub.done
    /\ fs[cfg.file] = Content(pub.t.AccessToken)

C31_SignalNeverPanics == proc # "panic"

\* C32: when proxy mode shuts down, the proxy server's Shutdown has returned
\* before the context of the token source is cancelled: the context is never
\* cancelled while a request is in flight, and it is cancelled only by the
\* interrupt, after Shutdown found no request in flight.
C32_ShutdownBeforeCancel ==
    /\ [](psBusy => ~pcancelled)
    /\ [](pcancelled => psShut)
    /\ [][(~pcancelled /\ pcancelled') => (grp = "i_ps_wait" /\ psShut /\ ~psBusy)]_vars

\* Shutdown waits for a request in flight, whose token source is still usable.
C32_Witness ==
    /\ grp = "i_ps_wait"
    /\ psShut
    /\ psBusy
    /\ ~pcancelled
    /\ psPc = "done"

\* C33: when the process ends, its outcome is the result of the first actor
\* that returned: a clean exit when that result is nil (the signal actor, a
\* cancelled refresh loop), an exit through stdlog.Fatal when it is a server's
\* error; what happens later, while the group unwinds, does not change it.
C33_ExitOutcomeIsFirst ==
    proc \in {"exit", "fatal", "panic"} =>
        /\ first = "nil" => proc = "exit"
        /\ first = "err" => proc = "fatal"

\* C34: in proxy mode a request starts a token fetch only when the cached
\* token is missing or no longer valid, and a fetch is in progress only then;
\* a request that asks for its token while the cached one is valid is sent
\* with the cached one, which stays in the cache.
C34_FetchOnlyWhenInvalid ==
    /\ [](\A i \in Requests : rq[i].pc = "fetch" => ~Valid(ptok, now))
    /\ [][\A i \in Requests :
             (rq[i].pc # "fetch" /\ rq'[i].pc = "fetch") =>
                 rq[i].pc = "token" /\ ~Valid(ptok, now)]_vars
    /\ [][\A i \in Requests :
             (Valid(ptok, now) /\ rq[i].pc = "token" /\ rq'[i] # rq[i]) =>
                 /\ rq'[i].pc = "send"
                 /\ rq'[i].tok = ptok
                 /\ rq'[i].out.Authorization.cred = ptok.AccessToken
                 /\ ptok' = ptok
                 /\ mu' = 0]_vars

\* A token fetched for an earlier request is still valid some time later, and
\* the next request is sent with it.
C34_Witness ==
    \E i, j \in Requests :
        /\ i # j
        /\ rq[i].pc = "send"
        /\ rq[i].tok = ptok
        /\ Valid(ptok, now)
        /\ now > 0
        /\ rq[j].pc = "idle"
        /\ mu = 0

\* C35: the token endpoint, the client id, the client secret and the endpoint
\* parameters are set once, before g.Run, from the flags and the discovery
\* document; nothing changes them afterwards, and every token request of the
\* refresh loop and of the proxy, also after failed ones, is built from them.
C35_RequestFixedAtStartup ==
    /\ [](boot = "run" =>
             /\ ccc = EndpointParams(cfg)
             /\ conf.ClientID = flags.clientID
             /\ conf.ClientSecret = flags.clientSecret
             /\ conf.TokenURL \in TokenURLs)
    /\ [](treq.sent => (boot = "run" /\ treq.conf = conf /\ treq.params = ccc))
    /\ [][boot = "run" => <<flags, cfg, ccc, conf>>' = <<flags, cfg, ccc, conf>>]_vars
    /\ [][treq.sent => treq' = treq]_vars

\* Both modes have fetched a token with the same request, and a request of
\* the proxy has seen a fetch fail.
C35_Witness ==
    /\ treq.sent
    /\ treq.params = {<<"scope", <<"s1", " ", "s2">>>>}
    /\ pub.done
    /\ ptok # NoToken
    /\ ptok # pub.t
    /\ \E i \in Requests : rq[i].pc = "failed"

\* C36: when --temp-file is unset, parseFlags makes the temp path the final
\* path with ".tmp" appended; in file mode the two paths then differ, the
\* token is written into the temp path only, and the final path changes only
\* through the rename, which gives it the content of the temp path.
C36_DefaultTempFileApart ==
    /\ [](boot \notin {"flags", "flagError"} /\ flags.tempFile = <<>> =>
             /\ cfg.tempFile = cfg.file \o <<".tmp">>
             /\ cfg.file # <<>> => cfg.tempFile # cfg.file)
    /\ [][(boot = "run" /\ flags.tempFile = <<>> /\ fs'[cfg.file] # fs[cfg.file]) =>
             /\ pc = "rename"
             /\ fs'[cfg.file] = fs[cfg.tempFile]
             /\ fs[cfg.tempFile] = Content(t.AccessToken)]_vars
    /\ [][(boot = "run" /\ flags.tempFile = <<>> /\ pc \in {"write", "wdata"}) =>
             fs'[cfg.file] = fs[cfg.file]]_vars

\* A token was written to <file>.tmp and renamed over an older final file.
C36_Witness ==
    /\ flags.tempFile = <<>>
    /\ cfg.tempFile = <<"token", ".tmp">>
    /\ pc = "sleep"
    /\ outcome = "ok"
    /\ preFinal.exists
    /\ preFinal # fs[cfg.file]
    /\ fs[cfg.file] = Content(t.AccessToken)
    /\ ~fs[cfg.tempFile].exists

\* C37: in the file-only variant, when the token request returns an error,
\* the refresh loop logs it and goes on to its select to wait for the next
\* attempt; the loop and the process keep running.
C37_FetchErrorKeepsRunning ==
    [][(pc = "fetch" /\ pc' # "fetch" /\ outcome' = "err") =>
          (pc' = "sleep" /\ proc' = "running")]_vars

====
